---- MODULE Spec2Model ----
(***************************************************************************)
(* Model of src/app.py: the rule-based planner (PlannerAgent) and the      *)
(* execution loop of MultiAgentSystem.execute_goal, with the five stock    *)
(* agents reduced to the shape of the AgentResult they return.             *)
(*                                                                         *)
(* Text is a sequence of one-character strings.  Every value stored in a   *)
(* data dictionary is a sequence of strings: a text, a plan, an opaque     *)
(* token naming the fetched datum, or InputDataRef, which stands for a     *)
(* reference to the dictionary that was handed to the agent (input_data).  *)
(***************************************************************************)
EXTENDS Integers, Sequences, FiniteSets, TLC

(***************************************************************************)
(* Bounds of the model.                                                    *)
(***************************************************************************)
\* Largest number of vocabulary phrases in a goal description.
MaxWords == 3
\* Largest max_iterations argument tried (a full five-agent plan needs 6).
MaxIter == 6
\* Largest number of entries of self.agents a caller has removed or replaced.
MaxAltered == 1

(***************************************************************************)
(* Python values.                                                          *)
(***************************************************************************)
\* Python's None, where an agent name or nothing is expected.
None == "None"

\* A reference to the dictionary passed to execute() (input_data): the
\* stock agents store it under "previous_data" / "all_data".
InputDataRef == << "<input_data>" >>

\* The empty dict {}.
EmptyDict == [k \in {} |-> <<>>]

\* Mutant of update: a key already present keeps its value.
update_KeepsOld(d, other) ==
    [k \in (DOMAIN d) \cup (DOMAIN other) |->
        IF k \in DOMAIN d THEN d[k] ELSE other[k]]

\* dict.update: keys of other are added, keys already present are
\* overwritten with other's value (shallow, last write wins).
update(d, other) ==
    [k \in (DOMAIN d) \cup (DOMAIN other) |->
        IF k \in DOMAIN other THEN other[k] ELSE d[k]]

\* json.dumps(input_data) raises ValueError("Circular reference detected")
\* exactly when the dictionary (transitively) contains itself.
Circular(d) == \E k \in DOMAIN d : d[k] = InputDataRef

(***************************************************************************)
(* Text: str.lower() and the substring test `keyword in goal_text`.        *)
(***************************************************************************)
\* The lower-case letter of every upper-case (ASCII) letter.
LowerCaseOf ==
    ("A" :> "a") @@ ("B" :> "b") @@ ("C" :> "c") @@ ("D" :> "d")
    @@ ("E" :> "e") @@ ("F" :> "f") @@ ("G" :> "g") @@ ("H" :> "h")
    @@ ("I" :> "i") @@ ("J" :> "j") @@ ("K" :> "k") @@ ("L" :> "l")
    @@ ("M" :> "m") @@ ("N" :> "n") @@ ("O" :> "o") @@ ("P" :> "p")
    @@ ("Q" :> "q") @@ ("R" :> "r") @@ ("S" :> "s") @@ ("T" :> "t")
    @@ ("U" :> "u") @@ ("V" :> "v") @@ ("W" :> "w") @@ ("X" :> "x")
    @@ ("Y" :> "y") @@ ("Z" :> "z")

lowerChar(c) == IF c \in DOMAIN LowerCaseOf THEN LowerCaseOf[c] ELSE c

\* str.lower(), character by character (SubSeq makes the result a tuple).
lower(s) == SubSeq([i \in 1..Len(s) |-> lowerChar(s[i])], 1, Len(s))

\* keyword in text
Contains(text, keyword) ==
    \E i \in 1..(Len(text) - Len(keyword) + 1) :
        SubSeq(text, i, i + Len(keyword) - 1) = keyword

\* any(keyword in goal_text for keyword in keywords)
AnyKeyword(goal_text, keywords) ==
    \E j \in 1..Len(keywords) : Contains(goal_text, keywords[j])

SpaceXKeywords ==
    << <<"s","p","a","c","e","x">>,
       <<"l","a","u","n","c","h">>,
       <<"r","o","c","k","e","t">>,
       <<"f","a","l","c","o","n">>,
       <<"d","r","a","g","o","n">> >>
WeatherKeywords ==
    << <<"w","e","a","t","h","e","r">>,
       <<"t","e","m","p","e","r","a","t","u","r","e">>,
       <<"r","a","i","n">>,
       <<"s","t","o","r","m">>,
       <<"d","e","l","a","y">> >>
NewsKeywords ==
    << <<"n","e","w","s">>,
       <<"a","r","t","i","c","l","e">>,
       <<"r","e","p","o","r","t">>,
       <<"u","p","d","a","t","e">> >>
CryptoKeywords ==
    << <<"b","i","t","c","o","i","n">>,
       <<"c","r","y","p","t","o">>,
       <<"b","t","c">>,
       <<"e","t","h">>,
       <<"p","r","i","c","e">> >>
SummaryKeywords ==
    << <<"s","u","m","m","a","r","i","z","e">>,
       <<"s","u","m","m","a","r","y">>,
       <<"c","o","n","c","l","u","d","e">> >>

(***************************************************************************)
(* PlannerAgent._analyze_goal                                              *)
(***************************************************************************)
\* plan.append(x) if cond
AppendIf(plan, cond, x) == IF cond THEN Append(plan, x) ELSE plan

\* Mutant of DomainPlan: the crypto test placed before the news test.
DomainPlan_CryptoBeforeNews(goal_text) ==
    LET p1 == AppendIf(<<>>, AnyKeyword(goal_text, SpaceXKeywords), "SpaceXAgent")
        p2 == AppendIf(p1, AnyKeyword(goal_text, WeatherKeywords), "WeatherAgent")
        p3 == AppendIf(p2, AnyKeyword(goal_text, CryptoKeywords), "CryptoAgent")
    IN  AppendIf(p3, AnyKeyword(goal_text, NewsKeywords), "NewsAgent")

\* The four domain tests, in the order of the if-chain.
DomainPlan(goal_text) ==
    LET p1 == AppendIf(<<>>, AnyKeyword(goal_text, SpaceXKeywords), "SpaceXAgent")
        p2 == AppendIf(p1, AnyKeyword(goal_text, WeatherKeywords), "WeatherAgent")
        p3 == AppendIf(p2, AnyKeyword(goal_text, NewsKeywords), "NewsAgent")
    IN  AppendIf(p3, AnyKeyword(goal_text, CryptoKeywords), "CryptoAgent")

\* "Always end with summarizer if multiple agents"
WithSummarizer(plan, goal_text) ==
    AppendIf(plan,
             Len(plan) > 1 \/ AnyKeyword(goal_text, SummaryKeywords),
             "SummarizeAgent")

\* "Default plan if nothing detected"
DefaultPlan == <<"NewsAgent", "SummarizeAgent">>

\* Mutant of analyze_goal: the default plan is forgotten.
analyze_goal_NoDefault(goal_text) ==
    WithSummarizer(DomainPlan(goal_text), goal_text)

analyze_goal(goal_text) ==
    LET plan == WithSummarizer(DomainPlan(goal_text), goal_text)
    IN  IF plan = <<>> THEN DefaultPlan ELSE plan

(***************************************************************************)
(* The agents: what execute(input_data) can return.                        *)
(***************************************************************************)
\* AgentResult (message, a formatted log line, is left out).
AgentResult(agent_name, success, data, next_agent) ==
    [agent_name |-> agent_name, success |-> success,
     data |-> data, next_agent |-> next_agent]

\* The keys of MultiAgentSystem.agents after __init__.
AgentIds ==
    {"PlannerAgent", "SpaceXAgent", "WeatherAgent",
     "NewsAgent", "CryptoAgent", "SummarizeAgent"}

\* BaseAgent.name of each registered instance.
AgentName(id) ==
    CASE id = "PlannerAgent"   -> "Planner"
      [] id = "SpaceXAgent"    -> "SpaceX"
      [] id = "WeatherAgent"   -> "Weather"
      [] id = "NewsAgent"      -> "News"
      [] id = "CryptoAgent"    -> "Crypto"
      [] id = "SummarizeAgent" -> "Summarize"

\* PlannerAgent.execute: always succeeds; the one result it can return.
PlannerResults(input_data) ==
    { AgentResult("Planner", TRUE,
                  ("plan" :> plan) @@ ("original_goal" :> input_data["goal"]),
                  IF plan # <<>> THEN plan[1] ELSE None) :
        plan \in { analyze_goal(goal_text) :
                      goal_text \in {lower(input_data["goal"])} } }

\* The result built in the try-branch of each fetching agent's execute.
SuccessResult(id) ==
    CASE id = "SpaceXAgent" ->
            AgentResult("SpaceX", TRUE,
                [k \in {"launch_name", "launch_date", "details",
                        "launchpad", "rocket", "success_probability"}
                    |-> << "spacex:" \o k >>],
                "WeatherAgent")
      [] id = "WeatherAgent" ->
            AgentResult("Weather", TRUE,
                ("weather" :> << "weather_data" >>)
                @@ ("launch_suitability" :> << "analysis" >>)
                @@ ("previous_data" :> InputDataRef),
                "SummarizeAgent")
      [] id = "NewsAgent" ->
            AgentResult("News", TRUE,
                ("news_articles" :> << "news_data" >>)
                @@ ("previous_data" :> InputDataRef),
                "SummarizeAgent")
      [] id = "CryptoAgent" ->
            AgentResult("Crypto", TRUE,
                ("crypto_prices" :> << "crypto_data" >>)
                @@ ("previous_data" :> InputDataRef),
                "SummarizeAgent")
      [] id = "SummarizeAgent" ->
            AgentResult("Summarize", TRUE,
                ("summary" :> << "summary" >>)
                @@ ("all_data" :> InputDataRef),
                None)

\* The result built in the except-branch.
FailureResult(id) ==
    CASE id = "SpaceXAgent" ->
            AgentResult("SpaceX", FALSE, EmptyDict, None)
      [] id = "SummarizeAgent" ->
            AgentResult("Summarize", FALSE, ("all_data" :> InputDataRef), None)
      [] OTHER ->
            AgentResult(AgentName(id), FALSE,
                        ("previous_data" :> InputDataRef), None)

\* Agents whose try-block does network I/O and so can take the
\* except-branch; _create_summary only reads the dictionary.
CanFail(id) == id \in {"SpaceXAgent", "WeatherAgent", "NewsAgent", "CryptoAgent"}

\* A BaseAgent subclass supplied by the caller: execute may return any
\* AgentResult.  These are the data dictionaries tried.
CustomPayloads ==
    { EmptyDict,
      ("a" :> << "1" >>),
      ("a" :> << "2" >>) @@ ("b" :> << "3" >>),
      ("launch_name" :> << "custom" >>) @@ ("summary" :> << "custom" >>),
      ("plan" :> << "CryptoAgent" >>) @@ ("goal" :> << "x" >>) }

\* The results tried: a success with each dictionary and a next_agent hint,
\* and a failure that carries data.
CustomResults ==
    { AgentResult("Custom", TRUE, data, "CryptoAgent") : data \in CustomPayloads }
    \cup { AgentResult("Custom", FALSE, ("a" :> << "2" >>) @@ ("b" :> << "3" >>), None) }

\* log_execution runs after the try/except of every stock execute and calls
\* json.dumps(input_data): the call raises out of execute exactly when
\* input_data contains itself.  A caller's agent may raise at will.
Raises(impl, id, input_data) ==
    IF impl = "custom" THEN TRUE ELSE Circular(input_data)

\* The AgentResults execute(input_data) may return.
Returns(impl, id, input_data) ==
    IF impl = "custom" THEN CustomResults
    ELSE IF Circular(input_data) THEN {}
    ELSE IF id = "PlannerAgent" THEN PlannerResults(input_data)
    ELSE {SuccessResult(id)} \cup (IF CanFail(id) THEN {FailureResult(id)} ELSE {})

(***************************************************************************)
(* State of one call of MultiAgentSystem.execute_goal.                     *)
(***************************************************************************)
VARIABLES
    agents,            \* self.agents: registered id -> "stock" or "custom"
    goal_description,  \* argument
    max_iterations,    \* argument
    goal,              \* the Goal object
    current_data,      \* local
    current_agent,     \* local
    iteration,         \* local
    pc,                \* "loop": in the while loop; "done": returned goal;
                       \* "raised": an exception left execute_goal
    invoked            \* history: ids of the agents whose execute was awaited

vars == <<agents, goal_description, max_iterations, goal, current_data,
          current_agent, iteration, pc, invoked>>

\* Goal(description, plan) with the dataclass defaults.
Goal(description, plan) ==
    [description |-> description, plan |-> plan, current_step |-> 0,
     results |-> <<>>, is_complete |-> FALSE]

(***************************************************************************)
(* Inputs.                                                                 *)
(***************************************************************************)
\* "Check Bitcoin price and get related news", the third goal of main().
ExampleGoal ==
    <<"C","h","e","c","k"," ","B","i","t","c","o","i","n"," ","p","r","i","c","e"," ",
      "a","n","d"," ","g","e","t"," ","r","e","l","a","t","e","d"," ","n","e","w","s">>

\* The example goal, "Brainstorm rocket", "Launch", "summary", "hello".
Vocabulary ==
    << ExampleGoal,
       <<"B","r","a","i","n","s","t","o","r","m"," ","r","o","c","k","e","t">>,
       <<"L","a","u","n","c","h">>,
       <<"s","u","m","m","a","r","y">>,
       <<"h","e","l","l","o">> >>

RECURSIVE Join(_)
Join(ws) ==
    IF Len(ws) = 1 THEN Vocabulary[ws[1]]
    ELSE Vocabulary[ws[1]] \o <<" ">> \o Join(Tail(ws))

\* Up to MaxWords distinct phrases, in vocabulary order, joined by a space.
PhraseChoices ==
    { ws \in UNION { [1..n -> 1..Len(Vocabulary)] : n \in 1..MaxWords } :
        \A i \in 1..(Len(ws) - 1) : ws[i] < ws[i + 1] }

GoalTexts == { Join(ws) : ws \in PhraseChoices }

\* The five agents a plan can name.
PlanAgentIds == AgentIds \ {"PlannerAgent"}

\* self.agents is a plain attribute.  __init__ registers the six stock
\* agents; a caller may then have removed entries or put its own BaseAgent
\* in place of a plan agent.
Registries ==
    { [id \in AgentIds \ removed |-> IF id \in replaced THEN "custom" ELSE "stock"] :
        removed \in SUBSET AgentIds, replaced \in SUBSET PlanAgentIds } 

AlteredRegistries ==
    { r \in Registries :
        Cardinality((AgentIds \ DOMAIN r) \cup {id \in DOMAIN r : r[id] = "custom"})
            <= MaxAltered }

Init ==
    /\ agents \in AlteredRegistries
    /\ goal_description \in GoalTexts
    /\ max_iterations \in (-1)..MaxIter
    /\ goal = Goal(goal_description, <<>>)
    /\ current_data = ("goal" :> goal_description)
    /\ current_agent = "PlannerAgent"
    /\ iteration = 0
    /\ pc = "loop"
    /\ invoked = <<>>

(***************************************************************************)
(* The while loop of execute_goal.                                         *)
(***************************************************************************)
\* Mutant of LoopCondition: the ceiling compared with <=.
LoopCondition_OffByOne == current_agent # None /\ iteration <= max_iterations

\* while current_agent and iteration < max_iterations
LoopCondition == current_agent # None /\ iteration < max_iterations

\* Mutant of NextAgent: the plan is left one agent before its end.
NextAgent_StopsEarly(g, agent, result) ==
    IF agent = "PlannerAgent" /\ "plan" \in DOMAIN result.data
    THEN LET p == result.data["plan"]
         IN  [goal |-> [g EXCEPT !.plan = p],
              current_agent |-> IF p # <<>> THEN p[1] ELSE None]
    ELSE IF g.plan # <<>> /\ g.current_step < Len(g.plan) - 2
         THEN [goal |-> [g EXCEPT !.current_step = g.current_step + 1],
               current_agent |-> g.plan[g.current_step + 2]]
         ELSE [goal |-> g, current_agent |-> None]

\* Mutant of NextAgent: the result's next_agent hint decides.
NextAgent_FollowsHint(g, agent, result) ==
    IF agent = "PlannerAgent" /\ "plan" \in DOMAIN result.data
    THEN LET p == result.data["plan"]
         IN  [goal |-> [g EXCEPT !.plan = p],
              current_agent |-> IF p # <<>> THEN p[1] ELSE None]
    ELSE IF g.plan # <<>> /\ g.current_step < Len(g.plan) - 1
         THEN [goal |-> [g EXCEPT !.current_step = g.current_step + 1],
               current_agent |-> result.next_agent]
         ELSE [goal |-> g, current_agent |-> None]

\* Mutant of NextAgent: any result with a "plan" key replaces the plan.
NextAgent_AnyPlanKey(g, agent, result) ==
    IF "plan" \in DOMAIN result.data
    THEN LET p == result.data["plan"]
         IN  [goal |-> [g EXCEPT !.plan = p],
              current_agent |-> IF p # <<>> THEN p[1] ELSE None]
    ELSE IF g.plan # <<>> /\ g.current_step < Len(g.plan) - 1
         THEN [goal |-> [g EXCEPT !.current_step = g.current_step + 1],
               current_agent |-> g.plan[g.current_step + 2]]
         ELSE [goal |-> g, current_agent |-> None]

\* "Determine next agent": the new goal and current_agent after a
\* successful result.
NextAgent(g, agent, result) ==
    IF agent = "PlannerAgent" /\ "plan" \in DOMAIN result.data
    THEN LET p == result.data["plan"]
         IN  [goal |-> [g EXCEPT !.plan = p],
              current_agent |-> IF p # <<>> THEN p[1] ELSE None]
    ELSE IF g.plan # <<>> /\ g.current_step < Len(g.plan) - 1
         THEN [goal |-> [g EXCEPT !.current_step = g.current_step + 1],
               current_agent |-> g.plan[g.current_step + 2]]
         ELSE [goal |-> g, current_agent |-> None]

\* Mutant of Return: is_complete set whenever the engine stops.
Return_AlwaysComplete(g, agent) == [g EXCEPT !.is_complete = TRUE]

\* Mutant of Return: complete when the last recorded result succeeded.
Return_LastSucceeded(g, agent) ==
    [g EXCEPT !.is_complete =
        (g.results # <<>> /\ g.results[Len(g.results)].success)]

\* goal.is_complete = current_agent is None; return goal
Return(g, agent) == [g EXCEPT !.is_complete = (agent = None)]

\* Mutant of AgentNotFound: the missing agent is skipped and the loop goes on.
AgentNotFound_Skips ==
    /\ pc = "loop" /\ LoopCondition
    /\ current_agent \notin DOMAIN agents
    /\ iteration' = iteration + 1
    /\ current_agent' =
          IF goal.plan # <<>> /\ goal.current_step < Len(goal.plan) - 1
          THEN goal.plan[goal.current_step + 2] ELSE None
    /\ goal' =
          IF goal.plan # <<>> /\ goal.current_step < Len(goal.plan) - 1
          THEN [goal EXCEPT !.current_step = goal.current_step + 1] ELSE goal
    /\ UNCHANGED <<agents, goal_description, max_iterations, current_data,
                   invoked, pc>>

\* self.agents.get(current_agent) is None: break, then return.
AgentNotFound ==
    /\ pc = "loop" /\ LoopCondition
    /\ current_agent \notin DOMAIN agents
    /\ iteration' = iteration + 1
    /\ goal' = Return(goal, current_agent)
    /\ pc' = "done"
    /\ UNCHANGED <<agents, goal_description, max_iterations, current_data,
                   current_agent, invoked>>

\* await agent.execute(current_data) raises: nothing catches it.
AgentRaises ==
    /\ pc = "loop" /\ LoopCondition
    /\ current_agent \in DOMAIN agents
    /\ Raises(agents[current_agent], current_agent, current_data)
    /\ iteration' = iteration + 1
    /\ invoked' = Append(invoked, current_agent)
    /\ pc' = "raised"
    /\ UNCHANGED <<agents, goal_description, max_iterations, goal,
                   current_data, current_agent>>

\* Mutant of AgentFails: no break, the loop goes on to the next agent.
AgentFails_NoBreak ==
    /\ pc = "loop" /\ LoopCondition
    /\ current_agent \in DOMAIN agents
    /\ \E result \in Returns(agents[current_agent], current_agent, current_data) :
        /\ ~result.success
        /\ LET n == NextAgent([goal EXCEPT !.results = Append(@, result)],
                              current_agent, result)
           IN  /\ goal' = n.goal
               /\ current_agent' = n.current_agent
    /\ iteration' = iteration + 1
    /\ invoked' = Append(invoked, current_agent)
    /\ UNCHANGED <<agents, goal_description, max_iterations, current_data, pc>>

\* The result has success == False: it is appended, then break and return.
AgentFails ==
    /\ pc = "loop" /\ LoopCondition
    /\ current_agent \in DOMAIN agents
    /\ \E result \in Returns(agents[current_agent], current_agent, current_data) :
        /\ ~result.success
        /\ goal' = Return([goal EXCEPT !.results = Append(@, result)],
                          current_agent)
    /\ iteration' = iteration + 1
    /\ invoked' = Append(invoked, current_agent)
    /\ pc' = "done"
    /\ UNCHANGED <<agents, goal_description, max_iterations, current_data,
                   current_agent>>

\* Mutant of AgentSucceeds: the planner's step is not counted as an iteration.
AgentSucceeds_PlannerUncounted ==
    /\ pc = "loop" /\ LoopCondition
    /\ current_agent \in DOMAIN agents
    /\ \E result \in Returns(agents[current_agent], current_agent, current_data) :
        /\ result.success
        /\ LET n == NextAgent([goal EXCEPT !.results = Append(@, result)],
                              current_agent, result)
           IN  /\ goal' = n.goal
               /\ current_agent' = n.current_agent
        /\ current_data' = update(current_data, result.data)
    /\ iteration' = IF current_agent = "PlannerAgent" THEN iteration
                    ELSE iteration + 1
    /\ invoked' = Append(invoked, current_agent)
    /\ UNCHANGED <<agents, goal_description, max_iterations, pc>>

\* The result has success == True: append, merge, choose the next agent.
AgentSucceeds ==
    /\ pc = "loop" /\ LoopCondition
    /\ current_agent \in DOMAIN agents
    /\ \E result \in Returns(agents[current_agent], current_agent, current_data) :
        /\ result.success
        /\ LET n == NextAgent([goal EXCEPT !.results = Append(@, result)],
                              current_agent, result)
           IN  /\ goal' = n.goal
               /\ current_agent' = n.current_agent
        /\ current_data' = update(current_data, result.data)
    /\ iteration' = iteration + 1
    /\ invoked' = Append(invoked, current_agent)
    /\ UNCHANGED <<agents, goal_description, max_iterations, pc>>

\* The loop condition is false: fall through to the return.
LoopExit ==
    /\ pc = "loop" /\ ~LoopCondition
    /\ goal' = Return(goal, current_agent)
    /\ pc' = "done"
    /\ UNCHANGED <<agents, goal_description, max_iterations, current_data,
                   current_agent, iteration, invoked>>

Next ==
    \/ AgentNotFound
    \/ AgentRaises
    \/ AgentFails
    \/ AgentSucceeds
    \/ LoopExit

Spec == Init /\ [][Next]_vars

\* The loop is sequential code and every execute returns or raises.
FairSpec == Spec /\ WF_vars(Next)

(***************************************************************************)
(* MultiAgentSystem.evaluate_goal_satisfaction                             *)
(***************************************************************************)
RECURSIVE CountSuccess(_)
CountSuccess(results) ==
    IF results = <<>> THEN 0
    ELSE (IF results[1].success THEN 1 ELSE 0) + CountSuccess(Tail(results))

evaluate_goal_satisfaction(g) ==
    [goal_satisfied |-> g.is_complete,
     total_agents_executed |-> Len(g.results),
     successful_agents |-> CountSuccess(g.results),
     failed_agents |-> Len(g.results) - CountSuccess(g.results),
     agent_trajectory |-> [i \in 1..Len(g.results) |-> g.results[i].agent_name]]

TypeOK ==
    /\ DOMAIN agents \subseteq AgentIds
    /\ pc \in {"loop", "done", "raised"}
    /\ iteration \in 0..(MaxIter + 1)
    /\ current_agent \in AgentIds \cup {None}
    /\ goal.current_step \in 0..5
    /\ goal.is_complete \in BOOLEAN

(***************************************************************************)
(* Vocabulary of the properties.                                           *)
(***************************************************************************)
\* Every agent the run can name is registered.
AllRegistered ==
    /\ "PlannerAgent" \in DOMAIN agents
    /\ \A i \in 1..Len(goal.plan) : goal.plan[i] \in DOMAIN agents

\* Every recorded result reports success.
AllSucceeded == \A i \in 1..Len(goal.results) : goal.results[i].success

IsPlanAgent(id) == id # "PlannerAgent"

\* Number of plan agents whose execute was awaited.
HandlersInvoked == Len(SelectSeq(invoked, IsPlanAgent))

\* The run returned after a result with success == False.
FailedRun ==
    /\ pc = "done"
    /\ goal.results # <<>>
    /\ ~goal.results[Len(goal.results)].success

\* 1-based plan position of the agent the cursor is on.
CursorPosition == goal.current_step + 1

Satisfied == evaluate_goal_satisfaction(goal).goal_satisfied

(***************************************************************************)
(* C1: run termination when every agent succeeds.                          *)
(***************************************************************************)
\* The run returned, nothing failed or was missing, and max_iterations did
\* not cut it short.
SuccessfulRun ==
    /\ pc = "done"
    /\ AllRegistered
    /\ AllSucceeded

\* C1 as stated: if every invoked handler reports success and the ceiling
\* is out of reach, the run completes with len(history) == len(plan).
C1_Original ==
    (SuccessfulRun /\ max_iterations > Len(goal.plan))
        => (goal.is_complete /\ Len(goal.results) = Len(goal.plan))

\* C1 as amended: every run ends, and if every invoked agent reports success
\* and max_iterations >= len(plan) + 1, it ends complete with
\* len(results) == len(plan) + 1, the planner's own record being the first.
C1_Amended ==
    <>[](/\ pc # "loop"
         /\ (SuccessfulRun /\ max_iterations >= Len(goal.plan) + 1)
                => /\ goal.is_complete
                   /\ Len(goal.results) = Len(goal.plan) + 1
                   /\ goal.results[1].agent_name = "Planner")

C1_Witness ==
    /\ SuccessfulRun
    /\ goal.is_complete
    /\ Len(goal.plan) >= 3
    /\ Len(goal.results) = Len(goal.plan) + 1

(***************************************************************************)
(* C2: fail-fast.                                                          *)
(***************************************************************************)
\* C2 as stated: when the k-th handler of a plan of length n > k fails,
\* len(history) == k, the failing record is last, and exactly the handlers
\* 1..k were invoked, each once.
C2_Original ==
    (FailedRun /\ CursorPosition < Len(goal.plan))
        => /\ Len(goal.results) = CursorPosition
           /\ ~goal.results[Len(goal.results)].success
           /\ SelectSeq(invoked, IsPlanAgent)
                 = SubSeq(goal.plan, 1, CursorPosition)

\* C2 as amended: when the k-th handler of a plan of length n > k fails (the
\* earlier ones having succeeded), len(results) == k + 1 (the planner's
\* record comes first), the failing record is the last entry, and the agents
\* invoked are the planner and then plan[0..k-1], each once.
C2_Amended ==
    (FailedRun /\ CursorPosition < Len(goal.plan))
        => /\ Len(goal.results) = CursorPosition + 1
           /\ goal.results[1].agent_name = "Planner"
           /\ \A i \in 1..CursorPosition : goal.results[i].success
           /\ ~goal.results[CursorPosition + 1].success
           /\ invoked = <<"PlannerAgent">> \o SubSeq(goal.plan, 1, CursorPosition)

C2_Witness ==
    /\ FailedRun
    /\ CursorPosition = 2
    /\ Len(goal.plan) >= 3

(***************************************************************************)
(* C3: the step ceiling.                                                   *)
(***************************************************************************)
\* C3 as stated: with max_steps < len(plan) and every invoked handler
\* succeeding, exactly max_steps handlers are invoked, len(history) ==
\* max_steps and the run is not satisfied.
C3_Original ==
    (SuccessfulRun /\ max_iterations >= 0 /\ max_iterations < Len(goal.plan))
        => /\ HandlersInvoked = max_iterations
           /\ Len(goal.results) = max_iterations
           /\ ~Satisfied

\* C3 as amended: with 1 <= max_iterations < len(plan) and every invoked
\* agent succeeding, exactly max_iterations agents are invoked of which the
\* first is the planner, so max_iterations - 1 plan handlers run;
\* len(results) == max_iterations and the run is not satisfied.
C3_Amended ==
    (SuccessfulRun /\ max_iterations >= 1 /\ max_iterations < Len(goal.plan))
        => /\ Len(invoked) = max_iterations
           /\ invoked[1] = "PlannerAgent"
           /\ HandlersInvoked = max_iterations - 1
           /\ Len(goal.results) = max_iterations
           /\ ~Satisfied

C3_Witness ==
    /\ SuccessfulRun
    /\ max_iterations = 3
    /\ Len(goal.plan) >= 4
    /\ Len(goal.results) = 3
    /\ ~Satisfied

(***************************************************************************)
(* C4: the is_complete flag on return.                                     *)
(***************************************************************************)
\* C4 as stated: the flag is true on every returned Goal, however the run
\* ended, and false before the engine stops.
C4_Original ==
    /\ pc = "done" => goal.is_complete
    /\ pc = "loop" => ~goal.is_complete

\* C4 as amended: is_complete is false in every state before the engine
\* stops; on the returned Goal it is true when the loop ended with no next
\* agent (plan executed in full), and false when the run ended on a failed
\* result, on an unregistered agent or on the max_iterations ceiling with
\* an agent still pending.
C4_Amended ==
    /\ pc = "loop" => ~goal.is_complete
    /\ FailedRun => ~goal.is_complete
    /\ (pc = "done" /\ current_agent # None) => ~goal.is_complete
    /\ (pc = "done" /\ current_agent = None) => goal.is_complete

C4_Witness ==
    /\ pc = "done"
    /\ ~goal.is_complete
    /\ current_agent # None
    /\ AllSucceeded
    /\ iteration = max_iterations
    /\ Len(goal.results) >= 2

(***************************************************************************)
(* C5: plan order; the next_agent hint is not followed.                    *)
(***************************************************************************)
\* BaseAgent.name of the instance registered under id.
RegisteredName(id) ==
    IF agents[id] = "custom" THEN "Custom" ELSE AgentName(id)

\* C5: the agents invoked after the planner are plan[0], plan[1], ... in
\* order, without a gap or a repeat; the records after the planner's are
\* those of a prefix of plan in the same order; and the agent to run next is
\* the one under the plan cursor.
C5_PlanOrder ==
    /\ Len(SelectSeq(invoked, IsPlanAgent)) <= Len(goal.plan)
    /\ SelectSeq(invoked, IsPlanAgent)
          = SubSeq(goal.plan, 1, Len(SelectSeq(invoked, IsPlanAgent)))
    /\ Len(goal.results) <= Len(goal.plan) + 1
    /\ \A i \in 2..Len(goal.results) :
          goal.results[i].agent_name = RegisteredName(goal.plan[i - 1])
    /\ (pc = "loop" /\ goal.results # <<>> /\ current_agent # None)
          => /\ CursorPosition = Len(goal.results)
             /\ current_agent = goal.plan[CursorPosition]

\* A handler's hint names another agent than the one the cursor selects.
C5_Witness ==
    /\ pc = "loop"
    /\ Len(goal.results) >= 2
    /\ current_agent # None
    /\ goal.results[Len(goal.results)].next_agent # None
    /\ goal.results[Len(goal.results)].next_agent # current_agent

(***************************************************************************)
(* C6: the shared context.                                                 *)
(***************************************************************************)
\* Indices of the successful records whose data has key k.
Writers(records, k) ==
    { i \in 1..Len(records) : records[i].success /\ k \in DOMAIN records[i].data }

LastWriter(records, k) ==
    CHOOSE i \in Writers(records, k) : \A j \in Writers(records, k) : j <= i

\* The seed {"goal": description} with, for every key, the value of the
\* last successful record that wrote it; no other keys.
Merged(records) ==
    [k \in {"goal"} \cup UNION { DOMAIN records[i].data :
                                   i \in { j \in 1..Len(records) : records[j].success } }
        |-> IF Writers(records, k) = {} THEN goal_description
            ELSE records[LastWriter(records, k)].data[k]]

\* The records of the plan handlers: all but the planner's.
HandlerRecords == IF goal.results = <<>> THEN <<>> ELSE Tail(goal.results)

\* A plan handler is about to be handed current_data.
HandlerAboutToRun ==
    /\ pc = "loop" /\ LoopCondition
    /\ IsPlanAgent(current_agent)
    /\ current_agent \in DOMAIN agents

\* C6 as stated: the context handed to a handler is the seed merged, last
\* write wins, with the payloads of the handlers that succeeded before it,
\* and has no other keys.
C6_Original == HandlerAboutToRun => current_data = Merged(HandlerRecords)

\* C6 as amended: the context is the seed merged, last write wins and in
\* invocation order, with the payload of the planner ("plan" and
\* "original_goal") and then the payloads of the handlers that have
\* succeeded; it has no other keys and a failing payload is never merged.
C6_Amended == current_data = Merged(goal.results)

\* A handler is handed a context in which a later payload has replaced the
\* value an earlier one wrote.
C6_Witness ==
    /\ HandlerAboutToRun
    /\ \E k \in DOMAIN current_data :
          /\ Cardinality(Writers(goal.results, k)) >= 2
          /\ \E i \in Writers(goal.results, k) :
                goal.results[i].data[k] # current_data[k]

(***************************************************************************)
(* C7, C8: the planner.                                                    *)
(***************************************************************************)
\* The planner's record is in results, so goal.plan is the planner's plan.
PlannerRan == goal.results # <<>>

\* The goal description, lower-cased, contains a keyword of the list.
Matches(keywords) ==
    \E goal_text \in {lower(goal_description)} : AnyKeyword(goal_text, keywords)

\* The domain agents whose keyword list the goal description matches.
MatchedAgents ==
    { id \in PlanAgentIds :
        \/ id = "SpaceXAgent"  /\ Matches(SpaceXKeywords)
        \/ id = "WeatherAgent" /\ Matches(WeatherKeywords)
        \/ id = "NewsAgent"    /\ Matches(NewsKeywords)
        \/ id = "CryptoAgent"  /\ Matches(CryptoKeywords) }

\* C7 as stated: a text matching no domain gets the default plan, and no
\* plan is empty.
C7_Original ==
    PlannerRan =>
        /\ goal.plan # <<>>
        /\ \A matched \in {MatchedAgents} :
              matched = {} => goal.plan = <<"NewsAgent", "SummarizeAgent">>

\* C7 as amended: a text matching no domain and no summarization keyword
\* gets the default plan [news, summarize]; a text matching no domain but
\* containing a summarization keyword gets [summarize]; no plan is empty.
C7_Amended ==
    PlannerRan =>
        /\ goal.plan # <<>>
        /\ \A matched \in {MatchedAgents}, summary \in {Matches(SummaryKeywords)} :
              /\ (matched = {} /\ ~summary)
                    => goal.plan = <<"NewsAgent", "SummarizeAgent">>
              /\ (matched = {} /\ summary)
                    => goal.plan = <<"SummarizeAgent">>

C7_Witness ==
    /\ PlannerRan
    /\ MatchedAgents = {}
    /\ ~Matches(SummaryKeywords)
    /\ goal.plan = <<"NewsAgent", "SummarizeAgent">>

\* Priority rank of a domain agent.
Rank(id) ==
    CASE id = "SpaceXAgent"  -> 1
      [] id = "WeatherAgent" -> 2
      [] id = "NewsAgent"    -> 3
      [] id = "CryptoAgent"  -> 4

\* C8: a text matching two or more domains gets the matched domain agents
\* in the order launch, weather, news, market, each once, followed by the
\* summarizer; the example goal gets [news, market, summarize].
C8_PriorityOrder ==
    PlannerRan =>
        /\ \A matched \in {MatchedAgents} :
              Cardinality(matched) >= 2 =>
                /\ Len(goal.plan) = Cardinality(matched) + 1
                /\ goal.plan[Len(goal.plan)] = "SummarizeAgent"
                /\ \A i \in 1..Cardinality(matched) : goal.plan[i] \in matched
                /\ \A i, j \in 1..Cardinality(matched) :
                      i < j => Rank(goal.plan[i]) < Rank(goal.plan[j])
        /\ goal_description = ExampleGoal
              => goal.plan = <<"NewsAgent", "CryptoAgent", "SummarizeAgent">>

\* All four domains matched by a text that names them in another order.
C8_Witness ==
    /\ PlannerRan
    /\ Cardinality(MatchedAgents) = 4
    /\ SubSeq(goal_description, 1, Len(ExampleGoal)) = ExampleGoal

(***************************************************************************)
(* C9: satisfaction.                                                       *)
(***************************************************************************)
\* C9: on return, goal_satisfied is true exactly when the plan is not empty,
\* every plan handler was invoked, in order, and every result succeeded.
C9_Satisfied ==
    pc = "done" =>
        (Satisfied <=>
            /\ goal.plan # <<>>
            /\ SelectSeq(invoked, IsPlanAgent) = goal.plan
            /\ Len(goal.results) = Len(goal.plan) + 1
            /\ AllSucceeded)

\* A run stopped by the ceiling after successful steps only.
C9_Witness ==
    /\ pc = "done"
    /\ ~Satisfied
    /\ AllSucceeded
    /\ Len(goal.results) >= 2
    /\ Len(goal.results) < Len(goal.plan) + 1
    /\ current_agent \in DOMAIN agents

(***************************************************************************)
(* C10: an agent that raises.                                              *)
(***************************************************************************)
\* C10: an error raised by an agent never leaves execute_goal; the run ends
\* as a failed run that returns its Goal.
C10_RaiseIsFailedStep == pc # "raised"

(***************************************************************************)
(* C11: an agent missing from the registry.                                *)
(***************************************************************************)
\* The loop is about to look up an agent that self.agents does not hold.
UnknownAgentStep ==
    /\ pc = "loop" /\ LoopCondition
    /\ current_agent \notin DOMAIN agents

\* C11: when the current agent is not in the registry the engine stops at
\* once: the step appends no result, awaits no execute, leaves current_data
\* and the results as they were, and the returned goal is incomplete and
\* not satisfied; after the return nothing more is invoked.
C11_UnknownAgentStops ==
    [][ /\ UnknownAgentStep =>
            /\ pc' = "done"
            /\ goal'.results = goal.results
            /\ goal'.plan = goal.plan
            /\ current_data' = current_data
            /\ invoked' = invoked
            /\ ~goal'.is_complete
            /\ ~evaluate_goal_satisfaction(goal').goal_satisfied
        /\ pc = "done" => invoked' = invoked /\ goal'.results = goal.results
      ]_vars

\* A run returned through the break on a plan agent missing from the
\* registry, after the planner and one handler had run.
C11_Witness ==
    /\ pc = "done"
    /\ current_agent # None
    /\ current_agent \notin DOMAIN agents
    /\ iteration = Len(invoked) + 1
    /\ Len(goal.results) = 2
    /\ Len(goal.plan) >= 3
    /\ ~goal.is_complete

(***************************************************************************)
(* C12: the plan cursor.                                                   *)
(***************************************************************************)
\* The run has returned with every plan agent done.
Completed == pc = "done" /\ goal.is_complete

\* current_step never passes the plan, and the plan agent about to be
\* awaited is plan[current_step] (zero-based in the source).
CursorInPlan ==
    /\ goal.current_step <= Len(goal.plan)
    /\ HandlerAboutToRun =>
          /\ goal.current_step + 1 \in 1..Len(goal.plan)
          /\ current_agent = goal.plan[goal.current_step + 1]

\* A step changes goal.plan only when it is the planner's, on a goal that
\* has no result yet; after that step the plan stays as it is.
PlanWrittenOnce ==
    /\ goal'.plan # goal.plan =>
          /\ current_agent = "PlannerAgent"
          /\ goal.results = <<>>
          /\ goal.plan = <<>>
          /\ goal'.plan = goal'.results[1].data["plan"]
    /\ goal.results # <<>> => goal'.plan = goal.plan

\* C12 as stated: current_step <= len(plan) in every state; the plan agent
\* about to run is plan[current_step]; the plan is written once, by the
\* planner's step, and no later result changes it; and a completed run
\* has current_step = len(plan).
C12_Original ==
    /\ [](CursorInPlan /\ (Completed => goal.current_step = Len(goal.plan)))
    /\ [][PlanWrittenOnce]_vars

\* C12 as amended: the same, except that current_step is the index of the
\* agent that ran last: once the planner has run it stays below len(plan),
\* and a completed run has current_step = len(plan) - 1.
C12_Amended ==
    /\ [](/\ CursorInPlan
          /\ goal.results # <<>> => goal.current_step < Len(goal.plan)
          /\ Completed => goal.current_step = Len(goal.plan) - 1)
    /\ [][PlanWrittenOnce]_vars

\* A completed run of a plan of two or more agents in which a result
\* carried a "plan" key of its own into current_data.
C12_Witness ==
    /\ Completed
    /\ Len(goal.plan) >= 2
    /\ \E i \in 2..Len(goal.results) : "plan" \in DOMAIN goal.results[i].data
    /\ current_data["plan"] # goal.plan
    /\ goal.plan = goal.results[1].data["plan"]

(***************************************************************************)
(* C13: the planner is the first iteration of the loop.                    *)
(***************************************************************************)
\* C13: the planner runs as the first iteration of the loop.  With
\* max_iterations >= 1 the first agent awaited is the planner, its result is
\* the first of goal.results (present after the first iteration whenever the
\* planner is registered) and it has used one iteration, so at most
\* max_iterations - 1 plan agents are awaited and goal.results never holds
\* more than max_iterations results; with max_iterations <= 0 nothing is
\* awaited, plan and results stay empty and is_complete stays false.
C13_PlannerIsFirstIteration ==
    /\ max_iterations >= 1 =>
          /\ invoked # <<>> => invoked[1] = "PlannerAgent" /\ iteration >= 1
          /\ goal.results # <<>> =>
                /\ goal.results[1].agent_name = "Planner"
                /\ "plan" \in DOMAIN goal.results[1].data
          /\ (iteration >= 1 /\ "PlannerAgent" \in DOMAIN agents) =>
                goal.results # <<>>
          /\ \A i \in 2..Len(goal.results) :
                goal.results[i].agent_name # "Planner"
          /\ HandlersInvoked <= max_iterations - 1
          /\ Len(goal.results) <= iteration
          /\ iteration <= max_iterations
          /\ Len(goal.results) <= max_iterations
    /\ max_iterations <= 0 =>
          /\ invoked = <<>>
          /\ iteration = 0
          /\ goal.plan = <<>>
          /\ goal.results = <<>>
          /\ ~goal.is_complete

\* A run stopped by the ceiling with every iteration used: the planner's
\* result and max_iterations - 1 results of plan agents.
C13_Witness ==
    /\ pc = "done"
    /\ max_iterations >= 2
    /\ current_agent # None
    /\ current_agent \in DOMAIN agents
    /\ Len(goal.results) = max_iterations
    /\ HandlersInvoked = max_iterations - 1
    /\ goal.results[1].agent_name = "Planner"
    /\ ~goal.is_complete

====
